---------------------------- MODULE Spec2Model ----------------------------
(***************************************************************************)
(* A model of the buffering / persistence core of CrownDataWriter          *)
(* (src/app.py, class NeurosityApp).                                       *)
(*                                                                         *)
(* Three threads share self.buffer and the single sqlite3 connection:      *)
(*   main  : __init__ (login, init_database, start_flush_timer), start(),  *)
(*           the run loop, and stop() (unsubscribe, flush_buffer, close);  *)
(*   prod  : the SDK's delivery thread running brainwave_callback ->       *)
(*           buffer_data -> (size triggered) flush_buffer;                 *)
(*   timer : the daemon thread running flush_timer -> flush_buffer.        *)
(* No lock protects the buffer or the connection, so a thread switch can   *)
(* happen between any two accesses of shared state.  Each action below is  *)
(* one such access together with the thread-local code around it.  Two     *)
(* consecutive reads of self.buffer are one action where the second can    *)
(* only repeat the first or end the call without effect: flush_timer's     *)
(* `if self.buffer` with flush_buffer's `if not self.buffer`, and          *)
(* buffer_data's length test with the same guard.  The iterator's next     *)
(* and the INSERT of the item it yields are one action too: an item, once  *)
(* in a list, stays at its index, so the read gives the same item at the   *)
(* time of the INSERT.                                                     *)
(***************************************************************************)
EXTENDS Integers, Sequences, FiniteSets, TLC

\* ------------------------------------------------------------------ bounds
\* Number of samples the SDK delivers in a run.
MaxSamples == 2
\* Largest BUFFER_SIZE the environment may configure (app.py:30).
MaxBufferSize == 2
\* Number of insert / commit calls the store may fail in a run.
MaxFailures == 1

\* Largest number of rows in a store file an offline tool opens.
MaxRows == 3

\* ----------------------------------------------------------------- threads
Main == "main"
Prod == "prod"
Timer == "timer"
Threads == {Main, Prod, Timer}

\* Positions inside flush_buffer (app.py:118-147).
FlushPcs == {"f_begin", "f_loop", "f_commit", "f_clear"}
\* Positions at which the thread holds a cursor and is about to execute an
\* INSERT or the COMMIT.
StorePcs == {"f_loop", "f_commit"}

VARIABLES
  pc,          \* pc[t]: position of thread t
  buffer_size, \* self.buffer_size
  sdkTimestamps, \* the 'timestamp' values the device's samples carry in this run
  buffer,      \* self.buffer, the list object self.buffer currently names
  iter,        \* iter[t]: the list iterator of t's `for item in self.buffer`
  pending,     \* items inserted in the connection's open transaction
  committed,   \* items whose rows of brainwaves_raw are committed
  closed,      \* self.conn.close() has run
  subscribed,  \* the SDK subscription is active
  hasUnsub,    \* hasattr(self, 'unsubscribe')
  exitCode,    \* process exit status, -1 while the process runs
  delivered,   \* history: the raw samples as the SDK delivered them
  fails,       \* history: number of failed store calls so far
  sizeFlushes, \* history: completed (cleared) flushes run by buffer_data
  timerFlushed,\* history: the timer thread has called flush_buffer
  stopSteps,   \* history: the steps stop() has completed, in order
  schema,      \* names of the tables and indexes in the store file
  table,       \* rows of brainwaves_raw in the store file an offline tool opens
  result       \* what the offline tool's last call fetched

\* The writer process (app.py).
appVars == <<pc, buffer_size, sdkTimestamps, buffer, iter, pending, committed,
             closed, subscribed, hasUnsub, exitCode, delivered, fails,
             sizeFlushes, timerFlushed, stopSteps>>

\* The store file as the offline tools (data_viewer.py, setup_database.py)
\* see it, and what they fetched.
offlineVars == <<table, result>>

vars == <<appVars, schema, offlineVars>>

\* ------------------------------------------------------------------ samples
\* The operator name attached to every row (self.user_name, app.py:17).
user_name == "alice"

\* What datetime.now().isoformat() returns; the clock is abstracted to one value.
Now == "now"

\* Values the SDK may put in a sample's 'timestamp' field: the empty string,
\* the number zero, or a proper timestamp; "absent" stands for no such key.
RawTimestamps == {"absent", "empty", "zero", "t1"}

\* The streams considered: every sample of a run carries the same kind of
\* timestamp, or the device mixes samples without one and samples with one.
SdkProfiles == {{ts} : ts \in RawTimestamps} \cup {{"absent", "t1"}}

\* The stream of a device whose samples carry no 'timestamp' field.
PlainProfile == {{"absent"}}

\* Python truthiness of data.get('timestamp'): None (absent key), "" and 0 are falsy.
Falsy(ts) == ts \in {"absent", "empty", "zero"}

\* The sample dict the SDK delivers: key 'id' stands for the opaque payload.
RawSample(id, ts) ==
  IF ts = "absent" THEN [id |-> id] ELSE [id |-> id, timestamp |-> ts]

\* dict.get(key) with a default.
Get(d, key, default) == IF key \in DOMAIN d THEN d[key] ELSE default

\* brainwave_callback's stamping (app.py:165-166):
\*   if not data.get('timestamp'): data['timestamp'] = datetime.now().isoformat()
StampMutant(data) == data
Stamp(data) ==
  IF Falsy(Get(data, "timestamp", "absent"))
  THEN [id |-> data.id, timestamp |-> Now]
  ELSE data

\* json.dumps of a dict: the sequence of its (key, value) members in insertion order.
JsonDumps(item) ==
  IF "timestamp" \in DOMAIN item
  THEN << <<"id", item.id>>, <<"timestamp", item.timestamp>> >>
  ELSE << <<"id", item.id>> >>

\* json.loads of such a text: the dict with those members.
JsonLoads(text) ==
  [k \in {text[j][1] : j \in DOMAIN text} |->
     LET j == CHOOSE j \in DOMAIN text : text[j][1] = k IN text[j][2]]

\* The row flush_buffer inserts for an item (app.py:129-138); id is the
\* AUTOINCREMENT key the store assigns.
Row(item, rowid) ==
  [id |-> rowid,
   timestamp |-> Get(item, "timestamp", Now),
   data |-> JsonDumps(item),
   user_name |-> user_name]

\* The rows the store holds after the INSERTs of items, the first of them
\* being the store's row number first: AUTOINCREMENT numbers the rows in the
\* order of their insertion.
Table(items, first) ==
  [j \in DOMAIN items |-> Row(items[j], first + j - 1)]

\* The sample id a row was written from.
SampleOf(row) == JsonLoads(row.data).id

\* Number of rows of a row sequence written from sample id.
Count(id, rows) == Cardinality({j \in DOMAIN rows : SampleOf(rows[j]) = id})

Ids(items) == {items[j].id : j \in DOMAIN items}

\* ------------------------------------------------------------------- state
NoIter == [i |-> 0, own |-> FALSE, list |-> <<>>]

\* The state when the main module starts, before NeurosityApp() is constructed,
\* for a device whose stream is one of profiles.
Construct(profiles) ==
  /\ pc = [t \in Threads |-> IF t = Main THEN "login" ELSE "unborn"]
  /\ buffer_size \in 1..MaxBufferSize
  /\ sdkTimestamps \in profiles
  /\ buffer = <<>>
  /\ iter = [t \in Threads |-> NoIter]
  /\ pending = <<>>
  /\ committed = <<>>
  /\ closed = FALSE
  /\ subscribed = FALSE
  /\ hasUnsub = FALSE
  /\ exitCode = -1
  /\ delivered = <<>>
  /\ fails = 0
  /\ sizeFlushes = 0
  /\ timerFlushed = FALSE
  /\ stopSteps = <<>>

\* No offline tool has fetched anything.
NoResult == [op |-> "none"]

\* A store path at which no file exists yet.
FreshStore ==
  /\ schema = <<>>
  /\ table = <<>>
  /\ result = NoResult

Init == Construct(PlainProfile) /\ FreshStore

\* The same start, for every stream considered.
StreamInit == Construct(SdkProfiles) /\ FreshStore

Running == exitCode = -1

\* Where flush_buffer returns to in each thread.
Ret(t) == IF t = Prod THEN "idle" ELSE IF t = Timer THEN "sleep" ELSE "close"

InFlush(t) == pc[t] \in FlushPcs


\* ------------------------------------------------------- main thread, startup
\* exit(status), called on the main thread during construction (app.py:67,
\* 104): SystemExit ends the process with that status.
exitMutant(status) ==
  /\ pc' = [pc EXCEPT ![Main] = "exited"]
  /\ exitCode' = 0
exit(status) ==
  /\ pc' = [pc EXCEPT ![Main] = "exited"]
  /\ exitCode' = status

\* __init__ -> login (app.py:26, 57-67): a failed login prints and calls exit(1).
login ==
  /\ Running /\ pc[Main] = "login"
  /\ \/ /\ pc' = [pc EXCEPT ![Main] = "initdb"]
        /\ UNCHANGED exitCode
     \/ exit(1)
  /\ UNCHANGED <<schema, offlineVars, buffer_size, sdkTimestamps, buffer, iter, pending,
                 committed, closed, subscribed, hasUnsub, delivered,
                 fails, sizeFlushes, timerFlushed, stopSteps>>

\* The tables and indexes init_database creates, in the order of its CREATE
\* statements (app.py:85-97).
InitDatabaseObjects == <<"brainwaves_raw", "idx_timestamp">>

\* The tables and indexes setup_database creates (setup_database.py:30-54).
SetupDatabaseObjects == <<"brainwaves_raw", "idx_timestamp", "aggregated_data">>

Has(s, name) == \E j \in DOMAIN s : s[j] = name

\* CREATE TABLE / CREATE INDEX without IF NOT EXISTS, as a statement that adds
\* the name whether or not the file holds it.
CreateMutant(s, name) == Append(s, name)

\* CREATE TABLE / CREATE INDEX ... IF NOT EXISTS name: a no-op when a table or
\* index of that name exists.
CreateIfNotExists(s, name) == IF Has(s, name) THEN s ELSE Append(s, name)

\* The schema after the first k of the CREATE statements names have run on s.
RECURSIVE Created(_, _, _)
Created(s, names, k) ==
  IF k = 0 THEN s
  ELSE CreateIfNotExists(Created(s, names, k - 1), names[k])

\* __init__ -> init_database (app.py:35, 69-104): opens the connection and
\* creates the table and index; any exception (after any number of the CREATE
\* statements) prints and calls exit(1).
init_database ==
  /\ Running /\ pc[Main] = "initdb"
  /\ \/ /\ schema' = Created(schema, InitDatabaseObjects, Len(InitDatabaseObjects))
        /\ pc' = [pc EXCEPT ![Main] = "starttimer"]
        /\ UNCHANGED exitCode
     \/ /\ \E k \in 0..Len(InitDatabaseObjects) :
             schema' = Created(schema, InitDatabaseObjects, k)
        /\ exit(1)
  /\ UNCHANGED <<offlineVars, buffer_size, sdkTimestamps, buffer, iter, pending,
                 committed, closed, subscribed, hasUnsub, delivered,
                 fails, sizeFlushes, timerFlushed, stopSteps>>

\* __init__ -> start_flush_timer (app.py:38, 149-160): the daemon thread starts
\* in flush_timer's first sleep.
start_flush_timer ==
  /\ Running /\ pc[Main] = "starttimer"
  /\ pc' = [pc EXCEPT ![Main] = "start", ![Timer] = "sleep"]
  /\ UNCHANGED <<schema, offlineVars, buffer_size, sdkTimestamps, buffer, iter, pending,
                 committed, closed, subscribed, hasUnsub, exitCode,
                 delivered, fails, sizeFlushes, timerFlushed, stopSteps>>

\* start() (app.py:175-178, called at 218): neurosity.brainwaves_raw either
\* returns the unsubscribe handle, or raises, which the outermost handler
\* (app.py:225-227) answers with stop().
start ==
  /\ Running /\ pc[Main] = "start"
  /\ \/ /\ subscribed' = TRUE
        /\ hasUnsub' = TRUE
        /\ pc' = [pc EXCEPT ![Main] = "run", ![Prod] = "idle"]
     \/ /\ pc' = [pc EXCEPT ![Main] = "stop"]
        /\ UNCHANGED <<subscribed, hasUnsub>>
  /\ UNCHANGED <<schema, offlineVars, buffer_size, sdkTimestamps, buffer, iter, pending,
                 committed, closed, exitCode, delivered, fails,
                 sizeFlushes, timerFlushed, stopSteps>>

\* The run loop (app.py:220-227): a KeyboardInterrupt or an exception ends the
\* loop and calls stop().
InterruptMutant ==
  /\ Running /\ pc[Main] = "run"
  /\ pc' = [pc EXCEPT ![Main] = "stopped"]
  /\ UNCHANGED <<schema, offlineVars, buffer_size, sdkTimestamps, buffer, iter,
                 pending, committed, closed, subscribed, hasUnsub, exitCode,
                 delivered, fails, sizeFlushes, timerFlushed, stopSteps>>
Interrupt ==
  /\ Running /\ pc[Main] = "run"
  /\ pc' = [pc EXCEPT ![Main] = "stop"]
  /\ UNCHANGED <<schema, offlineVars, buffer_size, sdkTimestamps, buffer, iter, pending,
                 committed, closed, subscribed, hasUnsub, exitCode,
                 delivered, fails, sizeFlushes, timerFlushed, stopSteps>>

\* -------------------------------------------------------------------- stop()
\* Where stop() goes after its unsubscribe step: the final flush_buffer (app.py:186).
AfterUnsubscribeMutant == "close"
AfterUnsubscribe == "f_check"

\* stop(), first step (app.py:182-183): call the unsubscribe handle if start() set it.
stop_unsubscribe ==
  /\ Running /\ pc[Main] = "stop"
  /\ subscribed' = IF hasUnsub THEN FALSE ELSE subscribed
  /\ stopSteps' = IF hasUnsub THEN Append(stopSteps, "unsubscribe") ELSE stopSteps
  /\ pc' = [pc EXCEPT ![Main] = AfterUnsubscribe]
  /\ UNCHANGED <<schema, offlineVars, buffer_size, sdkTimestamps, buffer, iter, pending,
                 committed, closed, hasUnsub, exitCode, delivered,
                 fails, sizeFlushes, timerFlushed>>

\* stop(), last step (app.py:189-190): self.conn.close(); sqlite discards the
\* rows of a transaction that is still open.
stop_close ==
  /\ Running /\ pc[Main] = "close"
  /\ closed' = TRUE
  /\ pending' = <<>>
  /\ stopSteps' = Append(stopSteps, "close")
  /\ pc' = [pc EXCEPT ![Main] = "stopped"]
  /\ UNCHANGED <<schema, offlineVars, buffer_size, sdkTimestamps, buffer, iter, committed,
                 subscribed, hasUnsub, exitCode, delivered, fails,
                 sizeFlushes, timerFlushed>>

\* stop() has returned and the main module ends (app.py:224, 227): the process
\* exits, and its threads and their loops end with it.
Exit ==
  /\ Running /\ pc[Main] = "stopped"
  /\ exitCode' = 0
  /\ pc' = [t \in Threads |-> "exited"]
  /\ iter' = [t \in Threads |-> NoIter]
  /\ UNCHANGED <<schema, offlineVars, buffer_size, sdkTimestamps, buffer, pending,
                 committed, closed, subscribed, hasUnsub, delivered,
                 fails, sizeFlushes, timerFlushed, stopSteps>>

\* ------------------------------------------------------------ producer thread
\* buffer_data's test `len(self.buffer) >= self.buffer_size` (app.py:115).
BufferFullMutant(len, size) == len > size
BufferAlwaysFullMutant(len, size) == TRUE
BufferFull(len, size) == len >= size

\* brainwave_callback up to and including buffer_data's append (app.py:162-173,
\* 112): stamp the sample, then self.buffer.append(data).
brainwave_callback(ts) ==
  /\ Running /\ subscribed /\ pc[Prod] = "idle"
  /\ Len(delivered) < MaxSamples
  /\ LET raw == RawSample(Len(delivered) + 1, ts) IN
       /\ delivered' = Append(delivered, raw)
       /\ buffer' = Append(buffer, Stamp(raw))
  /\ pc' = [pc EXCEPT ![Prod] = "p_len"]
  /\ UNCHANGED <<schema, offlineVars, buffer_size, sdkTimestamps, iter, pending, committed,
                 closed, subscribed, hasUnsub, exitCode, fails,
                 sizeFlushes, timerFlushed, stopSteps>>

\* ------------------------------------------------- flush_buffer, any thread
\* The list t's for-loop iterates: the list object self.buffer named when the
\* loop began.  While self.buffer still names that object, appends to it are
\* seen by the iterator; once another flush has rebound self.buffer to a new
\* list (app.py:144), the iterator keeps the old object (own = TRUE).
IterList(t) == IF iter[t].own THEN iter[t].list ELSE buffer

\* The steps stop() has completed, after t's flush_buffer returned.
Returned(t) == IF t = Main THEN Append(stopSteps, "flush") ELSE stopSteps

\* What self.buffer holds after the except branch (app.py:146-147): the
\* handler only prints, the buffer is not touched.
BufferAfterFailureMutant(buf) == <<>>
BufferAfterFailure(buf) == buf

\* flush_buffer's guard (app.py:120-121) read by t: return at once on an
\* empty buffer, else go on to the try block.
flush_buffer_guard(t) ==
  IF buffer = <<>>
  THEN /\ pc' = [pc EXCEPT ![t] = Ret(t)]
       /\ stopSteps' = Returned(t)
  ELSE /\ pc' = [pc EXCEPT ![t] = "f_begin"]
       /\ UNCHANGED stopSteps

\* stop()'s call of flush_buffer (app.py:186): the guard.
stop_flush_buffer ==
  /\ Running /\ pc[Main] = "f_check"
  /\ flush_buffer_guard(Main)
  /\ UNCHANGED <<schema, offlineVars, buffer_size, sdkTimestamps, buffer, iter, pending,
                 committed, closed, subscribed, hasUnsub, exitCode,
                 delivered, fails, sizeFlushes, timerFlushed>>

\* buffer_data's size test (app.py:115-116): call flush_buffer when the buffer
\* is full, else return to the SDK.
buffer_data ==
  /\ Running /\ pc[Prod] = "p_len"
  /\ IF BufferFull(Len(buffer), buffer_size)
     THEN flush_buffer_guard(Prod)
     ELSE /\ pc' = [pc EXCEPT ![Prod] = "idle"]
          /\ UNCHANGED stopSteps
  /\ UNCHANGED <<schema, offlineVars, buffer_size, sdkTimestamps, buffer, iter, pending,
                 committed, closed, subscribed, hasUnsub, exitCode,
                 delivered, fails, sizeFlushes, timerFlushed>>

\* flush_timer (app.py:152-156): after the sleep, `if self.buffer:` calls
\* flush_buffer; an empty buffer sends the thread back to sleep (no change).
flush_timer ==
  /\ Running /\ pc[Timer] = "sleep"
  /\ buffer # <<>>
  /\ timerFlushed' = TRUE
  /\ flush_buffer_guard(Timer)
  /\ UNCHANGED <<schema, offlineVars, buffer_size, sdkTimestamps, buffer, iter, pending,
                 committed, closed, subscribed, hasUnsub, exitCode,
                 delivered, fails, sizeFlushes>>

\* The except branch (app.py:146-147) taken by t: print and return.  A store
\* call that failed may have made sqlite roll the open transaction back
\* (rollback = TRUE) or may have left it open with the rows inserted so far;
\* the code itself never rolls back.  envFailure tells a failure of the store
\* from a call on the closed connection.
flush_buffer_except(t, rollback, envFailure) ==
  /\ pc' = [pc EXCEPT ![t] = Ret(t)]
  /\ iter' = [iter EXCEPT ![t] = NoIter]
  /\ buffer' = BufferAfterFailure(buffer)
  /\ pending' = IF rollback THEN <<>> ELSE pending
  /\ fails' = IF envFailure THEN fails + 1 ELSE fails
  /\ stopSteps' = Returned(t)
  /\ UNCHANGED <<schema, offlineVars, buffer_size, sdkTimestamps, committed, closed, subscribed,
                 hasUnsub, exitCode, delivered, sizeFlushes, timerFlushed>>

\* self.conn.cursor() and the start of the for loop (app.py:124, 127): the
\* cursor call raises on a closed connection; otherwise the loop takes an
\* iterator over the list self.buffer names now.
flush_buffer_begin(t) ==
  /\ Running /\ pc[t] = "f_begin"
  /\ IF closed
     THEN flush_buffer_except(t, FALSE, FALSE)
     ELSE /\ pc' = [pc EXCEPT ![t] = "f_loop"]
          /\ iter' = [iter EXCEPT ![t] = NoIter]
          /\ UNCHANGED <<schema, offlineVars, buffer_size, sdkTimestamps, buffer, pending, committed,
                         closed, subscribed, hasUnsub, exitCode, delivered,
                         fails, sizeFlushes, timerFlushed, stopSteps>>

\* One turn of the for loop (app.py:127-138): the iterator yields the next
\* item and cursor.execute inserts its row, or the iterator is exhausted (it
\* is not used again) and control reaches the commit.  The INSERT raises on a
\* closed connection and may fail in the store.
flush_buffer_loop(t) ==
  /\ Running /\ pc[t] = "f_loop"
  /\ IF iter[t].i < Len(IterList(t))
     THEN \/ /\ ~closed
             /\ pending' = Append(pending, IterList(t)[iter[t].i + 1])
             /\ iter' = [iter EXCEPT ![t].i = @ + 1]
             /\ UNCHANGED <<schema, offlineVars, pc, buffer_size, sdkTimestamps, buffer, committed,
                            closed, subscribed, hasUnsub, exitCode, delivered,
                            fails, sizeFlushes, timerFlushed, stopSteps>>
          \/ /\ closed
             /\ flush_buffer_except(t, FALSE, FALSE)
          \/ /\ ~closed /\ fails < MaxFailures
             /\ \E rollback \in BOOLEAN : flush_buffer_except(t, rollback, TRUE)
     ELSE /\ pc' = [pc EXCEPT ![t] = "f_commit"]
          /\ iter' = [iter EXCEPT ![t] = NoIter]
          /\ UNCHANGED <<schema, offlineVars, buffer_size, sdkTimestamps, buffer, pending,
                         committed, closed, subscribed, hasUnsub, exitCode,
                         delivered, fails, sizeFlushes, timerFlushed, stopSteps>>

\* self.conn.commit() (app.py:140): commits every row of the connection's open
\* transaction, whichever thread inserted it; raises on a closed connection
\* and may fail in the store.
flush_buffer_commit(t) ==
  /\ Running /\ pc[t] = "f_commit"
  /\ \/ /\ ~closed
        /\ committed' = committed \o pending
        /\ pending' = <<>>
        /\ pc' = [pc EXCEPT ![t] = "f_clear"]
        /\ UNCHANGED <<schema, offlineVars, buffer_size, sdkTimestamps, buffer, iter, closed,
                       subscribed, hasUnsub, exitCode, delivered, fails,
                       sizeFlushes, timerFlushed, stopSteps>>
     \/ /\ closed
        /\ flush_buffer_except(t, FALSE, FALSE)
     \/ /\ ~closed /\ fails < MaxFailures
        /\ \E rollback \in BOOLEAN : flush_buffer_except(t, rollback, TRUE)

\* `self.buffer = []` (app.py:144): self.buffer names a new empty list; a loop
\* of another thread that iterates the old list keeps it.
flush_buffer_clear(t) ==
  /\ Running /\ pc[t] = "f_clear"
  /\ buffer' = <<>>
  /\ iter' = [u \in Threads |->
                IF u = t THEN NoIter
                ELSE IF pc[u] = "f_loop" /\ ~iter[u].own
                     THEN [iter[u] EXCEPT !.own = TRUE, !.list = buffer]
                     ELSE iter[u]]
  /\ pc' = [pc EXCEPT ![t] = Ret(t)]
  /\ stopSteps' = Returned(t)
  /\ sizeFlushes' = IF t = Prod THEN sizeFlushes + 1 ELSE sizeFlushes
  /\ UNCHANGED <<schema, offlineVars, buffer_size, sdkTimestamps, pending, committed, closed,
                 subscribed, hasUnsub, exitCode, delivered, fails,
                 timerFlushed>>

\* ------------------------------------------------------------ specification
flush_buffer(t) ==
  \/ flush_buffer_begin(t)
  \/ flush_buffer_loop(t)
  \/ flush_buffer_commit(t)
  \/ flush_buffer_clear(t)

MainStep ==
  \/ login
  \/ init_database
  \/ start_flush_timer
  \/ start
  \/ Interrupt
  \/ stop_unsubscribe
  \/ stop_flush_buffer
  \/ flush_buffer(Main)
  \/ stop_close
  \/ Exit

ProdStep ==
  \/ \E ts \in sdkTimestamps : brainwave_callback(ts)
  \/ buffer_data
  \/ flush_buffer(Prod)

TimerStep ==
  \/ flush_timer
  \/ flush_buffer(Timer)

Next == MainStep \/ ProdStep \/ TimerStep

Spec == Init /\ [][Next]_vars

\* The same program over every stream considered.
StreamSpec == StreamInit /\ [][Next]_vars

\* Scheduling: a thread that can run is eventually run.  The timer thread
\* wakes from every sleep, and a callback or a stop() in progress goes on.
\* Nothing obliges the SDK to deliver a sample or the user to interrupt.
ProdContinue == buffer_data \/ flush_buffer(Prod)
MainContinue ==
  \/ start_flush_timer \/ start \/ stop_unsubscribe \/ stop_flush_buffer
  \/ flush_buffer(Main)
  \/ stop_close \/ Exit
FairSpec ==
  /\ Init /\ [][Next]_vars
  /\ WF_vars(TimerStep) /\ WF_vars(ProdContinue) /\ WF_vars(MainContinue)

\* ------------------------------------------------- timestamps as stored text
\* A wall-clock time of January 2024; day, hour, minute and second are numbers.
Time(day, hour, minute, second) ==
  [day |-> day, hour |-> hour, minute |-> minute, second |-> second]

Digits == <<"0", "1", "2", "3", "4", "5", "6", "7", "8", "9">>
TwoDigits(n) == <<Digits[(n \div 10) + 1], Digits[(n % 10) + 1]>>

\* datetime.isoformat() of a time without microseconds, as the sequence of its
\* characters: YYYY-MM-DDTHH:MM:SS.
IsoFormat(t) ==
  <<"2", "0", "2", "4", "-", "0", "1", "-">> \o TwoDigits(t.day) \o <<"T">>
    \o TwoDigits(t.hour) \o <<":">> \o TwoDigits(t.minute) \o <<":">>
    \o TwoDigits(t.second)

\* The code point of a character of a timestamp.
Code(c) ==
  CASE c = "-" -> 45 [] c = "0" -> 48 [] c = "1" -> 49 [] c = "2" -> 50
    [] c = "3" -> 51 [] c = "4" -> 52 [] c = "5" -> 53 [] c = "6" -> 54
    [] c = "7" -> 55 [] c = "8" -> 56 [] c = "9" -> 57 [] c = ":" -> 58
    [] c = "T" -> 84

Min(a, b) == IF a <= b THEN a ELSE b

\* sqlite's comparison of two TEXT values (BINARY collation): the first
\* differing character decides, and a proper prefix sorts first.
LexLess(a, b) ==
  LET differ == {k \in 1..Min(Len(a), Len(b)) : a[k] # b[k]} IN
    IF differ = {}
    THEN Len(a) < Len(b)
    ELSE LET k == CHOOSE k \in differ : \A j \in differ : k <= j
         IN Code(a[k]) < Code(b[k])

LexLeq(a, b) == a = b \/ LexLess(a, b)

\* `timestamp BETWEEN ? AND ?` (data_viewer.py:79, 101).
BetweenMutant(ts, start_time, end_time) ==
  LexLess(start_time, ts) /\ LexLess(ts, end_time)
Between(ts, start_time, end_time) ==
  LexLeq(start_time, ts) /\ LexLeq(ts, end_time)

\* ------------------------------------------------ offline tools: the viewer
\* Operator names of the sessions that wrote the store file.
Owners == {"alice", "bob"}

\* Capture times of the rows in the file, and the text sqlite stores for a
\* numeric timestamp the device supplied (TEXT affinity), here the number 9.
StoredTimes == {Time(1, 10, 0, 0), Time(1, 10, 30, 0), Time(1, 11, 15, 0)}
NumericText == <<"9">>
StoredTimestamps == {IsoFormat(t) : t \in StoredTimes} \cup {NumericText}

\* Times a caller passes as the ends of a range.
RangeTimes == {Time(1, 0, 0, 0), Time(1, 10, 30, 0), Time(1, 23, 59, 59)}

\* The row a session of owner wrote for a sample captured at ts.
StoredRow(ts, owner, rowid) ==
  [Row([id |-> 1, timestamp |-> ts], rowid) EXCEPT !.user_name = owner]

\* The (timestamp, owner) pairs of the rows considered: alice's sessions wrote
\* rows of every timestamp, another owner a row in one of the same hours.
StoredKinds ==
  (StoredTimestamps \X {"alice"})
    \cup {<<IsoFormat(Time(1, 10, 30, 0)), owner>> : owner \in Owners}

\* The contents of brainwaves_raw considered: up to MaxRows rows, in id order.
TablesOf(n) ==
  {[j \in 1..n |-> StoredRow(k[j][1], k[j][2], j)] : k \in [1..n -> StoredKinds]}
Tables == UNION {TablesOf(n) : n \in 0..MaxRows}

\* The store file the viewer opens (data_viewer.py:16-19): one that holds the
\* table and its rows, or one in which the table was never created.
ViewerInit ==
  /\ Construct(PlainProfile) /\ buffer_size = 1
  /\ result = NoResult
  /\ \/ /\ schema = InitDatabaseObjects
        /\ table \in Tables
     \/ /\ schema = <<>>
        /\ table = <<>>

\* Row a comes before row b in a scan by timestamp; rows of equal timestamp
\* come in the order of their ids, forward or backward.
Before(a, b, descending, tiesBackward) ==
  IF a.timestamp = b.timestamp
  THEN IF tiesBackward THEN a.id > b.id ELSE a.id < b.id
  ELSE IF descending THEN LexLess(b.timestamp, a.timestamp)
       ELSE LexLess(a.timestamp, b.timestamp)

\* The orders in which `ORDER BY timestamp` (descending or not) returns rows:
\* SQL leaves the order of rows of equal timestamp open; sqlite returns them
\* in the order of the scan it chose.
OrderByTimestamp(rows, descending) ==
  {SortSeq(rows, LAMBDA a, b : Before(a, b, descending, tiesBackward)) :
     tiesBackward \in BOOLEAN}

\* `LIMIT ?`: the first limit rows; sqlite takes a negative limit as no limit.
Limit(r, limit) == IF limit < 0 THEN r ELSE SubSeq(r, 1, Min(limit, Len(r)))

\* A statement on brainwaves_raw raises when the file has no such table.
Raised(op) == [op |-> op, error |-> "no such table: brainwaves_raw"]

\* get_recent_data(limit) (data_viewer.py:49-72): the newest rows, each with
\* the summary fields read from its decoded payload.
get_recent_data(limit) ==
  /\ IF Has(schema, "brainwaves_raw")
     THEN \E r \in OrderByTimestamp(table, TRUE) :
            LET results == Limit(r, limit) IN
            result' =
              [op |-> "get_recent_data", limit |-> limit,
               rows |-> [j \in DOMAIN results |->
                          LET data == JsonLoads(results[j].data)
                          IN [timestamp |-> results[j].timestamp,
                              user_name |-> results[j].user_name,
                              channels |-> Len(Get(data, "data", <<>>)),
                              deviceId |-> Get(data, "deviceId", "unknown")]]]
     ELSE result' = Raised("get_recent_data")
  /\ UNCHANGED <<appVars, schema, table>>

\* get_data_by_timerange(start_time, end_time) (data_viewer.py:74-86): the
\* (timestamp, data) pairs of the rows in the range, oldest first.
get_data_by_timerange(start_time, end_time) ==
  /\ IF Has(schema, "brainwaves_raw")
     THEN \E r \in OrderByTimestamp(
                     SelectSeq(table,
                       LAMBDA row : Between(row.timestamp, start_time, end_time)),
                     FALSE) :
            result' =
              [op |-> "get_data_by_timerange",
               start_time |-> start_time, end_time |-> end_time,
               rows |-> [j \in DOMAIN r |-> <<r[j].timestamp, r[j].data>>]]
     ELSE result' = Raised("get_data_by_timerange")
  /\ UNCHANGED <<appVars, schema, table>>

\* substr(timestamp, 1, 13) (data_viewer.py:97): the characters up to the hour.
HourMutant(ts) == SubSeq(ts, 1, Min(10, Len(ts)))
Hour(ts) == SubSeq(ts, 1, Min(13, Len(ts)))

\* The hourly-count statement (data_viewer.py:95-104) on rows: one
\* (hour, count, user_name) per group of `GROUP BY hour, user_name` among the
\* rows in the range, in `ORDER BY hour`; groups of the same hour come in the
\* order of the scan, forward or backward.
HourlyCounts(rows, start_time, end_time, tiesBackward) ==
  LET inRange ==
        SelectSeq(rows, LAMBDA row : Between(row.timestamp, start_time, end_time))
      keyed == [j \in DOMAIN inRange |->
                  [first |-> j, hour |-> Hour(inRange[j].timestamp),
                   user_name |-> inRange[j].user_name]]
      SameGroup(a, b) == a.hour = b.hour /\ a.user_name = b.user_name
      groups == SelectSeq(keyed,
                  LAMBDA g : \A k \in 1..(g.first - 1) : ~SameGroup(keyed[k], g))
      ordered == SortSeq(groups,
                   LAMBDA a, b :
                     IF a.hour = b.hour
                     THEN IF tiesBackward THEN a.first > b.first
                          ELSE a.first < b.first
                     ELSE LexLess(a.hour, b.hour))
  IN [j \in DOMAIN ordered |->
        <<ordered[j].hour,
          Cardinality({k \in DOMAIN keyed : SameGroup(keyed[k], ordered[j])}),
          ordered[j].user_name>>]

\* plot_data_volume_by_hour(days) (data_viewer.py:88-123): the range ends at
\* datetime.now() and starts days (any number) before it; the rows fetched
\* are what the chart shows, and none are fetched when there is no data.
plot_data_volume_by_hour(start_time, end_time) ==
  /\ IF Has(schema, "brainwaves_raw")
     THEN \E tiesBackward \in BOOLEAN :
            result' =
              [op |-> "plot_data_volume_by_hour",
               start_time |-> start_time, end_time |-> end_time,
               rows |-> HourlyCounts(table, start_time, end_time, tiesBackward)]
     ELSE result' = Raised("plot_data_volume_by_hour")
  /\ UNCHANGED <<appVars, schema, table>>

ViewerNext ==
  \/ \E limit \in (-1)..(MaxRows + 1) : get_recent_data(limit)
  \/ \E t1, t2 \in RangeTimes :
       get_data_by_timerange(IsoFormat(t1), IsoFormat(t2))
  \/ \E t1, t2 \in RangeTimes :
       plot_data_volume_by_hour(IsoFormat(t1), IsoFormat(t2))

ViewerSpec == ViewerInit /\ [][ViewerNext]_vars

\* ------------------------------------- offline tools: the setup script
\* The names a store file may hold.
StoreObjects == {"brainwaves_raw", "idx_timestamp", "aggregated_data"}

\* The index of name in s, 0 when s does not hold it.
IndexOf(s, name) ==
  IF Has(s, name) THEN CHOOSE j \in DOMAIN s : s[j] = name ELSE 0

\* The schemas a store file at the path may have before a tool starts: no
\* name twice, and the index only after its table.
Schemas ==
  {s \in UNION {[1..n -> StoreObjects] : n \in 0..Cardinality(StoreObjects)} :
     /\ \A j, k \in DOMAIN s : s[j] = s[k] => j = k
     /\ Has(s, "idx_timestamp") =>
          /\ Has(s, "brainwaves_raw")
          /\ IndexOf(s, "brainwaves_raw") < IndexOf(s, "idx_timestamp")}

\* Any store file at the path, with the writer about to be constructed.
StoreInit ==
  /\ Construct(PlainProfile) /\ buffer_size = 1
  /\ result = NoResult
  /\ schema \in Schemas
  /\ table \in IF Has(schema, "brainwaves_raw") THEN Tables ELSE {<<>>}

\* setup_database() (setup_database.py:5-61): the CREATE statements in order,
\* commit and close.  No exception is caught: a statement that raises ends
\* the script after the statements before it.  again tells a run that
\* follows a completed run.
setup_database ==
  /\ \E k \in 0..Len(SetupDatabaseObjects), ok \in BOOLEAN :
       /\ ok => k = Len(SetupDatabaseObjects)
       /\ schema' = Created(schema, SetupDatabaseObjects, k)
       /\ result' = [op |-> "setup_database", ok |-> ok,
                     again |-> result.op = "setup_database" /\ result.ok]
  /\ UNCHANGED <<appVars, table>>

\* The two initialization paths on one store file: the writer's startup up to
\* init_database, and the setup script, run any number of times.
StoreNext == login \/ init_database \/ setup_database

StoreSpec == StoreInit /\ [][StoreNext]_vars

\* ------------------------------------------------------------ store content
\* The committed rows of table brainwaves_raw, in id order.
brainwaves_raw == Table(committed, 1)

\* The rows of the connection's open transaction.
Uncommitted == Table(pending, Len(committed) + 1)

\* ------------------------------------------------------------------- claims
SampleIds == 1..Len(delivered)

\* t leaves flush_buffer through its except branch in this step.
ExceptPath(t) ==
  /\ pc[t] \in {"f_begin", "f_loop", "f_commit"}
  /\ pc'[t] = Ret(t)

\* C1: a flush_buffer call that fails (cursor, insert or commit raises) leaves
\* self.buffer holding the same records in the same order: no step of its
\* except path changes the buffer, and the buffer is emptied only by the clear
\* step that follows a successful commit.
C1_FailedFlushKeepsBuffer ==
  [][ /\ \A t \in Threads : ExceptPath(t) => buffer' = buffer
      /\ (buffer # <<>> /\ buffer' = <<>>) =>
            \E t \in Threads : pc[t] = "f_clear" /\ pc'[t] = Ret(t) ]_vars

\* A store call has failed, every flush has returned, and the records are
\* still in the buffer.
C1_Witness ==
  /\ fails > 0
  /\ buffer # <<>>
  /\ \A t \in Threads : ~InFlush(t)

\* C2: after a flush that failed part-way and a later flush that succeeded,
\* every record delivered so far is stored as exactly one row.  Stated for
\* the runs in which only the producer thread has flushed (no timer flush, no
\* stop), so that no other thread is involved.
C2_RecoveryStoresEachOnce ==
  (/\ fails > 0
   /\ ~timerFlushed
   /\ pc[Main] = "run"
   /\ pc[Prod] = "idle"
   /\ buffer = <<>>)
  => \A id \in SampleIds : Count(id, brainwaves_raw) = 1

\* The items t's loop has still to insert from a list that self.buffer no
\* longer names.
Remaining(t) ==
  IF pc[t] = "f_loop" /\ iter[t].own
  THEN {iter[t].list[j].id : j \in (iter[t].i + 1)..Len(iter[t].list)}
  ELSE {}

\* C3: under every interleaving of the producer and the timer thread no
\* delivered record is lost: while the connection is open, each record is in
\* the buffer, or in a row of the store (committed or in the open
\* transaction), or still to be inserted by a flush in progress.
C3_NoRecordLost ==
  ~closed =>
    \A id \in SampleIds :
      \/ id \in Ids(buffer)
      \/ Count(id, brainwaves_raw) > 0
      \/ Count(id, Uncommitted) > 0
      \/ \E t \in Threads : id \in Remaining(t)

\* C4: under every interleaving of a size-triggered flush with a timer flush,
\* with no store call failing, each delivered record yields at most one row.
C4_NoDuplicateRows ==
  fails = 0 => \A id \in SampleIds : Count(id, brainwaves_raw) <= 1

\* C5: with an empty buffer at the start, after N buffer_data calls, no timer
\* flush, no stop and no failed store call, floor(N / T) size-triggered
\* flushes have completed and the buffer holds N mod T records.
C5_SizeFlushCount ==
  (/\ ~timerFlushed
   /\ fails = 0
   /\ pc[Main] \in {"run", "stop", "f_check"}
   /\ pc[Prod] = "idle")
  => /\ sizeFlushes = Len(delivered) \div buffer_size
     /\ Len(buffer) = Len(delivered) % buffer_size

\* A size-triggered flush has completed after at least two buffer_data calls.
C5_Witness ==
  /\ ~timerFlushed /\ fails = 0 /\ pc[Main] = "run" /\ pc[Prod] = "idle"
  /\ Len(delivered) >= 2
  /\ sizeFlushes >= 1

IsPrefix(s, t) == Len(s) <= Len(t) /\ s = SubSeq(t, 1, Len(s))

\* C6: stop() cancels the subscription (when start() set the handle), then
\* runs the final flush_buffer to its return, then closes the connection:
\* the steps completed so far are a prefix of that order, the flush runs with
\* the subscription cancelled, and the connection is closed only after the
\* final flush has returned.
C6_StopOrder ==
  /\ IsPrefix(stopSteps, IF hasUnsub THEN <<"unsubscribe", "flush", "close">>
                                     ELSE <<"flush", "close">>)
  /\ (pc[Main] \in FlushPcs \cup {"f_check"}) => ~subscribed
  /\ closed => \E j \in DOMAIN stopSteps : stopSteps[j] = "flush"

\* stop() has run all three steps and its final flush persisted a record.
C6_Witness ==
  /\ stopSteps = <<"unsubscribe", "flush", "close">>
  /\ closed
  /\ committed # <<>>

\* C7: while the process runs (the main thread is in its run loop), every
\* record placed in the buffer is eventually persisted, the store failing
\* only finitely often.
C7_EventuallyPersisted ==
  \A id \in 1..MaxSamples :
    [](id \in Ids(buffer) => <>(Count(id, brainwaves_raw) > 0 \/ pc[Main] # "run"))

\* C8 (as stated): the callback never executes a store insert or commit: the
\* producer thread is never at an INSERT or at the COMMIT.
C8_CallbackNeverAtStore == pc[Prod] \notin StorePcs

\* C8 (amended): the producer thread enters flush_buffer only from
\* buffer_data's length test, and exactly when that test finds
\* len(self.buffer) >= self.buffer_size; otherwise the callback returns
\* without a store call.
C8_StoreOnlyWhenFull ==
  [][ /\ (pc[Prod] = "p_len" /\ pc'[Prod] # "p_len" /\ Running') =>
            /\ Len(buffer) >= buffer_size => pc'[Prod] = "f_begin"
            /\ Len(buffer) < buffer_size => pc'[Prod] = "idle"
      /\ (InFlush(Prod)' /\ ~InFlush(Prod)) => pc[Prod] = "p_len" ]_vars

\* The callback has inserted the rows of a full buffer and is at the commit.
C8_Witness ==
  /\ pc[Prod] = "f_commit"
  /\ Len(pending) >= buffer_size

\* C9: the buffer never holds more than buffer_size records.
C9_BufferBounded == Len(buffer) <= buffer_size

\* C10: every stored row decodes to the sample it was written from: a sample
\* delivered without a timestamp field decodes to the sample plus the
\* injected timestamp, a sample delivered with a timestamp field (whatever
\* its value) decodes to the sample unchanged; and the sample has no other row.
C10_RoundTrip ==
  \A j \in DOMAIN brainwaves_raw :
    LET d == JsonLoads(brainwaves_raw[j].data)
        P == delivered[d.id]
    IN /\ IF "timestamp" \in DOMAIN P
          THEN d = P
          ELSE d = [id |-> P.id, timestamp |-> Now]
       /\ Count(d.id, brainwaves_raw) = 1

\* C11: a flush is one all-or-nothing transaction: the commit of a flush of a
\* buffer of k records makes the committed rows grow by exactly k, rows of an
\* earlier failed flush not among them.  Stated for the runs in which only
\* the producer thread flushes (no timer flush, no stop), where the k records
\* are the buffer at the commit.
C11_CommitGrowsByBatch ==
  [][ (/\ ~timerFlushed
       /\ pc[Main] = "run"
       /\ pc[Prod] = "f_commit" /\ pc'[Prod] = "f_clear")
      => Len(brainwaves_raw') = Len(brainwaves_raw) + Len(buffer) ]_vars

\* Number of members of the sequence r equal to v.
Occurrences(v, r) == Cardinality({j \in DOMAIN r : r[j] = v})

\* The sequences a and b hold the same values the same number of times.
SameBag(a, b) ==
  \A v \in {a[j] : j \in DOMAIN a} \cup {b[j] : j \in DOMAIN b} :
    Occurrences(v, a) = Occurrences(v, b)

Timestamps(rows) == [j \in DOMAIN rows |-> rows[j].timestamp]

\* C12: for start_time <= end_time the time-range query returns exactly the
\* rows whose timestamp is lexically in [start_time, end_time], oldest first;
\* for limit >= 0 the recent-record query returns min(limit, row count) rows,
\* newest first, and no row it leaves out is newer than a row it returns.
C12_RangeAndRecent ==
  /\ (/\ result.op = "get_data_by_timerange"
      /\ "rows" \in DOMAIN result
      /\ LexLeq(result.start_time, result.end_time))
     => LET inRange ==
              SelectSeq(table, LAMBDA row :
                /\ LexLeq(result.start_time, row.timestamp)
                /\ LexLeq(row.timestamp, result.end_time))
        IN /\ SameBag(result.rows,
                      [j \in DOMAIN inRange |->
                         <<inRange[j].timestamp, inRange[j].data>>])
           /\ \A j \in 1..(Len(result.rows) - 1) :
                LexLeq(result.rows[j][1], result.rows[j + 1][1])
  /\ (/\ result.op = "get_recent_data"
      /\ "rows" \in DOMAIN result
      /\ result.limit >= 0)
     => /\ Len(result.rows) = Min(result.limit, Len(table))
        /\ \A j \in 1..(Len(result.rows) - 1) :
             LexLeq(result.rows[j + 1].timestamp, result.rows[j].timestamp)
        /\ \A ts \in {table[j].timestamp : j \in DOMAIN table} :
             /\ Occurrences(ts, Timestamps(result.rows))
                  <= Occurrences(ts, Timestamps(table))
             /\ (\E j \in DOMAIN result.rows : LexLess(result.rows[j].timestamp, ts))
                  => Occurrences(ts, Timestamps(result.rows))
                       = Occurrences(ts, Timestamps(table))
        /\ \A j \in DOMAIN result.rows :
             \E k \in DOMAIN table :
               /\ table[k].timestamp = result.rows[j].timestamp
               /\ table[k].user_name = result.rows[j].user_name

\* A range query over a full day returned two rows and left out a later one.
C12_Witness ==
  /\ result.op = "get_data_by_timerange"
  /\ "rows" \in DOMAIN result
  /\ LexLess(result.start_time, result.end_time)
  /\ Len(result.rows) = 2
  /\ Len(table) = 3

\* C13: the hourly-count query returns one bucket per distinct pair (first 13
\* characters of timestamp, owner) among the rows in the range, each with the
\* number of those rows, ordered by hour prefix; the rows 10:00:00, 10:30:00
\* and 11:15:00 of 2024-01-01 of owner alice, queried over the whole of that
\* day, give (2024-01-01T10, 2, alice) and (2024-01-01T11, 1, alice).
C13_HourlyCounts ==
  (result.op = "plot_data_volume_by_hour" /\ "rows" \in DOMAIN result)
  => LET inRange ==
           SelectSeq(table, LAMBDA row :
             /\ LexLeq(result.start_time, row.timestamp)
             /\ LexLeq(row.timestamp, result.end_time))
         Prefix(ts) == SubSeq(ts, 1, IF Len(ts) < 13 THEN Len(ts) ELSE 13)
         pairs == {<<Prefix(inRange[j].timestamp), inRange[j].user_name>> :
                     j \in DOMAIN inRange}
         buckets == result.rows
     IN /\ {<<buckets[j][1], buckets[j][3]>> : j \in DOMAIN buckets} = pairs
        /\ Len(buckets) = Cardinality(pairs)
        /\ \A j \in DOMAIN buckets :
             buckets[j][2] =
               Cardinality({k \in DOMAIN inRange :
                 /\ Prefix(inRange[k].timestamp) = buckets[j][1]
                 /\ inRange[k].user_name = buckets[j][3]})
        /\ \A j \in 1..(Len(buckets) - 1) :
             LexLeq(buckets[j][1], buckets[j + 1][1])
        /\ (/\ Timestamps(table) =
                  <<IsoFormat(Time(1, 10, 0, 0)), IsoFormat(Time(1, 10, 30, 0)),
                    IsoFormat(Time(1, 11, 15, 0))>>
            /\ \A j \in DOMAIN table : table[j].user_name = "alice"
            /\ result.start_time = IsoFormat(Time(1, 0, 0, 0))
            /\ result.end_time = IsoFormat(Time(1, 23, 59, 59)))
           => buckets =
                << << <<"2", "0", "2", "4", "-", "0", "1", "-", "0", "1", "T", "1", "0">>,
                      2, "alice" >>,
                   << <<"2", "0", "2", "4", "-", "0", "1", "-", "0", "1", "T", "1", "1">>,
                      1, "alice" >> >>

\* The hourly-count query ran over the whole day on the three rows of alice.
C13_Witness ==
  /\ result.op = "plot_data_volume_by_hour"
  /\ "rows" \in DOMAIN result
  /\ Len(table) = 3
  /\ \A j \in DOMAIN table : table[j].user_name = "alice"
  /\ table[1].timestamp =
       <<"2", "0", "2", "4", "-", "0", "1", "-", "0", "1", "T",
         "1", "0", ":", "0", "0", ":", "0", "0">>
  /\ table[2].timestamp = IsoFormat(Time(1, 10, 30, 0))
  /\ table[3].timestamp = IsoFormat(Time(1, 11, 15, 0))
  /\ result.start_time = IsoFormat(Time(1, 0, 0, 0))
  /\ result.end_time = IsoFormat(Time(1, 23, 59, 59))
  /\ Len(result.rows) = 2

\* C14: store initialization is idempotent: a run of init_database, or of
\* setup_database, on a store file that holds everything that initialization
\* creates (as it does after a first run) changes neither the tables, nor the
\* indexes, nor the rows; and no run creates a name twice.
C14_InitIdempotent ==
  [][ /\ (/\ pc[Main] = "initdb" /\ pc'[Main] # "initdb"
          /\ Has(schema, "brainwaves_raw") /\ Has(schema, "idx_timestamp"))
         => schema' = schema /\ table' = table
      /\ (/\ pc' = pc /\ result'.op = "setup_database"
          /\ \A name \in StoreObjects : Has(schema, name))
         => schema' = schema /\ table' = table
      /\ \A j, k \in DOMAIN schema' : schema'[j] = schema'[k] => j = k ]_vars

\* The writer initialized a store the setup script had set up, and the script
\* then completed twice, on a store that holds rows.
C14_Witness ==
  /\ pc[Main] = "starttimer"
  /\ result.op = "setup_database" /\ result.ok /\ result.again
  /\ table # <<>>

\* C15: no store operation is made after close: once stop() has closed the
\* connection, no step of any thread is an INSERT or a COMMIT on it (such a
\* call raises, and the thread leaves flush_buffer through its except branch).
C15_NoStoreCallAfterClose ==
  [][ \A t \in Threads :
        ~(closed /\ pc[t] \in StorePcs /\ pc'[t] = Ret(t)) ]_vars

\* C16: with every flush succeeding, the stored rows in id order are in the
\* order of ingestion: a row of a later sample never has a smaller id than a
\* row of an earlier sample.
C16_IdOrderIsIngestionOrder ==
  fails = 0 =>
    \A j, k \in DOMAIN brainwaves_raw :
      brainwaves_raw[j].id < brainwaves_raw[k].id
        => SampleOf(brainwaves_raw[j]) <= SampleOf(brainwaves_raw[k])

\* C17: after a successful initialization on either path (the writer's
\* init_database has returned, or setup_database has completed) the store
\* holds brainwaves_raw, its index idx_timestamp, and aggregated_data.
C17_InitCreatesAllObjects ==
  (\/ pc[Main] = "starttimer"
   \/ (result.op = "setup_database" /\ result.ok))
  => \A name \in {"brainwaves_raw", "idx_timestamp", "aggregated_data"} :
       Has(schema, name)

\* C18: a failed login ends the process with a non-zero status and without
\* any later startup step: no store is initialized, no timer thread is
\* started, no subscription is begun, nothing is buffered or stored; a failed
\* init_database ends the process with a non-zero status before the timer
\* thread is started; and nothing runs after the exit.
C18_StartupFailureExits ==
  [][ /\ (pc[Main] = "login" /\ pc'[Main] # "login")
         => \/ pc'[Main] = "initdb" /\ exitCode' = -1
            \/ /\ pc'[Main] = "exited" /\ exitCode' > 0
               /\ schema' = schema /\ schema = <<>>
               /\ buffer' = <<>> /\ committed' = <<>> /\ pending' = <<>>
               /\ pc'[Timer] = "unborn" /\ pc'[Prod] = "unborn"
               /\ ~subscribed'
      /\ (pc[Main] = "initdb" /\ pc'[Main] # "initdb")
         => \/ pc'[Main] = "starttimer" /\ exitCode' = -1
            \/ /\ pc'[Main] = "exited" /\ exitCode' > 0
               /\ pc'[Timer] = "unborn" /\ pc'[Prod] = "unborn"
               /\ ~subscribed'
      /\ exitCode > 0 => UNCHANGED vars ]_vars

\* The process has ended with status 1 during construction.
C18_Witness ==
  /\ exitCode = 1
  /\ pc[Main] = "exited"
  /\ pc[Timer] = "unborn"
  /\ schema = <<>>

\* C19: an error or interrupt that ends the run loop leads to exactly one
\* execution of the stop sequence before the process terminates: nothing of
\* stop() runs before the loop has ended, no step of it runs twice, and the
\* process terminates normally only after unsubscribe (when start() set the
\* handle), final flush and close have all run.
C19_StopRunsOnce ==
  /\ pc[Main] \in {"login", "initdb", "starttimer", "start", "run"}
       => stopSteps = <<>>
  /\ \A j, k \in DOMAIN stopSteps : stopSteps[j] = stopSteps[k] => j = k
  /\ exitCode = 0
       => /\ stopSteps = IF hasUnsub THEN <<"unsubscribe", "flush", "close">>
                                     ELSE <<"flush", "close">>
          /\ closed /\ ~subscribed

\* The process has terminated after an interrupt of the run loop.
C19_Witness ==
  /\ exitCode = 0
  /\ hasUnsub
  /\ Len(stopSteps) = 3

=============================================================================
